---- MODULE Spec2Model ----
(***************************************************************************)
(* BraketClientBackend (src/src/qibo_cloud_backends/braket_client.py):     *)
(* construction of the client and execute_circuit, one action per          *)
(* statement group, against a device and a job that answer                 *)
(* nondeterministically.                                                   *)
(***************************************************************************)
EXTENDS Integers, Sequences, FiniteSets, TLC

VARIABLES
    pc,              \* position of the caller / of execute_circuit
    self,            \* the client's fields: device, verbatim_circuit, verbosity, name
    ctor,            \* the arguments __init__ was called with
    args,            \* arguments of the running execute_circuit call
    measurements,    \* local of execute_circuit (line 50)
    braket_circuit,  \* local (line 53)
    task,            \* local (line 55): the job handle
    status,          \* local (line 58)
    i,               \* sleeps done in the for loop of line 63
    samples,         \* local (line 68)
    outcome,         \* how the call ended: returned value or raised error
    job,             \* the device's job: its id and its status
    prev,            \* how the client's previous call ended ("none": no such call)
    h                \* what the call did so far: calls made, answers received

vars == <<pc, self, ctor, args, measurements, braket_circuit, task, status, i,
          samples, outcome, job, prev, h>>

-----------------------------------------------------------------------------
\* Bounds of the model.
MaxGates == 1    \* circuits have at most this many gates before their measurements

-----------------------------------------------------------------------------
\* Values.
None == "<None>"

Gate(kind, qubit) == [kind |-> kind, qubit |-> qubit]

\* "RX" has an emission rule, "FOO" has none, "M" is a measurement.
Gates == {Gate("RX", 0), Gate("FOO", 1)}

MeasurementLists ==
    {<<>>, <<Gate("M", 0)>>, <<Gate("M", 0), Gate("M", 1)>>, <<Gate("M", 1), Gate("M", 0)>>}

\* A circuit's queue: its gates, then its measurements.
Circuits ==
    {g \o m : g \in UNION {[1..n -> Gates] : n \in 0..MaxGates}, m \in MeasurementLists}

ShotCounts == {1000, 100}

KwargsSets == {{}, {"disable_qubit_rewiring"}}

DeviceArgs == {None, "braket_dm", "", "arn:aws:braket:::device/quantum-simulator/amazon/sv1"}

Statuses == {"QUEUED", "RUNNING", "COMPLETED", "FAILED", "CANCELLED"}

Terminal == {"COMPLETED", "FAILED", "CANCELLED"}

\* Job ids the device hands out.
TaskIds == {1, 2}

SampleArrays == {<<<<0, 0>>>>, <<<<0, 1>>, <<1, 1>>>>}

Err(type, arg) == [type |-> type, arg |-> arg]

NoError == Err("none", "")

DeviceErrors == {Err("ClientError", "throttled"), Err("TimeoutError", "poll")}

NoDevice == [class |-> "none", arg |-> ""]

NoCircuit == [instructions |-> <<>>, verbatim |-> FALSE]

NoResult == [measurements |-> <<>>, backend |-> "", samples |-> <<>>, nshots |-> 0]

NoArgs == [circuit |-> <<>>, nshots |-> 0, kwargs |-> {}]

NoJob == [id |-> 0, status |-> "none"]

NoOutcome == [kind |-> "none", error |-> NoError, result |-> NoResult]

NoHistory ==
    [to_braket |-> <<>>, run |-> <<>>, runTask |-> 0, polled |-> FALSE,
     lastPoll |-> "none", sleeps |-> 0, slept |-> FALSE, results |-> 0,
     resultSamples |-> <<>>, raisedBy |-> "none", raised |-> NoError,
     stages |-> <<>>]

-----------------------------------------------------------------------------
\* External collaborators.

\* LocalSimulator(backend="default") and AwsDevice(arn).
LocalSimulator(backend) == [class |-> "LocalSimulator", arg |-> backend]

AwsDevice(arn) == [class |-> "AwsDevice", arg |-> arn]

\* circuit_qibo.measurements: the measurement gates of the queue, in order.
IsMeasurement(g) == g.kind = "M"

Measurements(circuit) == SelectSeq(circuit, IsMeasurement)

\* to_braket: gate by gate; measurements are skipped, a kind with no rule fails.
Supported == {"RX"}

RECURSIVE Emit(_)
Emit(queue) ==
    IF queue = <<>> THEN <<>>
    ELSE IF IsMeasurement(Head(queue)) THEN Emit(Tail(queue))
    ELSE <<Head(queue)>> \o Emit(Tail(queue))

Unsupported(queue) ==
    {k \in 1..Len(queue) : ~IsMeasurement(queue[k]) /\ queue[k].kind \notin Supported}

to_braket(circuit, verbatim) ==
    IF Unsupported(circuit) # {}
    THEN [ok |-> FALSE, circuit |-> NoCircuit,
          error |-> Err("UnsupportedGateError",
                        circuit[CHOOSE k \in Unsupported(circuit) :
                                  \A m \in Unsupported(circuit) : k <= m].kind)]
    ELSE [ok |-> TRUE, circuit |-> [instructions |-> Emit(circuit), verbatim |-> verbatim],
          error |-> NoError]

-----------------------------------------------------------------------------
\* __init__ (lines 14-38).

ResolveDeviceNotNone(device) ==
    IF device = "braket_dm" THEN LocalSimulator("braket_dm")
    ELSE IF device # None THEN AwsDevice(device)
    ELSE LocalSimulator("default")

\* Lines 32-37: `elif device:` is Python truthiness, false for None and for "".
ResolveDevice(device) ==
    IF device = "braket_dm" THEN LocalSimulator("braket_dm")
    ELSE IF device # None /\ device # "" THEN AwsDevice(device)
    ELSE LocalSimulator("default")

BraketClientBackend_init ==
    /\ pc = "new"
    /\ \E device \in DeviceArgs, verbatim_circuit \in BOOLEAN, verbosity \in BOOLEAN :
          /\ ctor' = [device |-> device, verbatim_circuit |-> verbatim_circuit,
                      verbosity |-> verbosity]
          /\ self' = [verbatim_circuit |-> verbatim_circuit,
                      verbosity |-> verbosity,
                      device |-> ResolveDevice(device),
                      name |-> "aws"]
    /\ pc' = "idle"
    /\ UNCHANGED <<prev, args, measurements, braket_circuit, task, status, i, samples,
                   outcome, job, h>>

-----------------------------------------------------------------------------
\* execute_circuit (lines 40-72).

Stage(s) == [h EXCEPT !.stages = Append(@, s)]

Raise(hist, by, e) ==
    /\ outcome' = [kind |-> "raised", error |-> e, result |-> NoResult]
    /\ h' = [hist EXCEPT !.raisedBy = by, !.raised = e]
    /\ pc' = "done"

\* The caller enters execute_circuit(circuit_qibo, nshots, **kwargs).
Call ==
    /\ pc = "idle"
    /\ \E circuit \in Circuits, nshots \in ShotCounts, kwargs \in KwargsSets :
          args' = [circuit |-> circuit, nshots |-> nshots, kwargs |-> kwargs]
    /\ pc' = "L50"
    /\ UNCHANGED <<prev, self, ctor, measurements, braket_circuit, task, status, i,
                   samples, outcome, job, h>>

\* The call has returned or raised: its frame is gone, the caller has the outcome.
Exit ==
    /\ pc = "done"
    /\ prev' = outcome.kind
    /\ args' = NoArgs
    /\ measurements' = <<>>
    /\ braket_circuit' = NoCircuit
    /\ task' = 0
    /\ status' = "none"
    /\ i' = 0
    /\ samples' = <<>>
    /\ outcome' = NoOutcome
    /\ job' = NoJob
    /\ h' = NoHistory
    /\ pc' = "idle"
    /\ UNCHANGED <<self, ctor>>

NotMeasurementsNever(m) == FALSE

\* Line 51: `not measurements`.
NotMeasurements(m) == m = <<>>

\* Lines 50-52.
Validate ==
    /\ pc = "L50"
    /\ measurements' = Measurements(args.circuit)
    /\ IF NotMeasurements(measurements')
       THEN Raise(Stage("validate"), "validate",
                  Err("RuntimeError", "No measurement found in the provided circuit."))
       ELSE /\ pc' = "L53"
            /\ h' = Stage("validate")
            /\ UNCHANGED outcome
    /\ UNCHANGED <<prev, self, ctor, args, braket_circuit, task, status, i, samples, job>>

VerbatimArgDefault(s) == FALSE

\* Line 53: the second argument of to_braket.
VerbatimArg(s) == s.verbatim_circuit

\* Line 53.
Translate ==
    /\ pc = "L53"
    /\ LET r == to_braket(args.circuit, VerbatimArg(self))
           hist == [Stage("translate") EXCEPT
                       !.to_braket = Append(@, [circuit |-> args.circuit,
                                                verbatim |-> VerbatimArg(self)])]
       IN  IF r.ok
           THEN /\ braket_circuit' = r.circuit
                /\ h' = hist
                /\ pc' = "L55"
                /\ UNCHANGED outcome
           ELSE /\ Raise(hist, "translate", r.error)
                /\ UNCHANGED braket_circuit
    /\ UNCHANGED <<prev, self, ctor, args, measurements, task, status, i, samples, job>>

\* Submit with a retry of device.run after an error.
SubmitRetry ==
    /\ pc = "L55"
    /\ LET hist == [Stage("submit") EXCEPT
                       !.run = Append(@, [circuit |-> braket_circuit,
                                          shots |-> args.nshots,
                                          kwargs |-> args.kwargs])]
       IN  \/ \E t \in TaskIds, s \in Statuses :
                 /\ job' = [id |-> t, status |-> s]
                 /\ task' = t
                 /\ h' = [hist EXCEPT !.runTask = t]
                 /\ pc' = "L57"
                 /\ UNCHANGED outcome
           \/ /\ Len(h.run) < 2
              /\ h' = [h EXCEPT !.run = hist.run]
              /\ UNCHANGED <<pc, outcome, job, task>>
           \/ \E e \in DeviceErrors :
                 /\ Len(h.run) >= 2
                 /\ Raise(hist, "run", e)
                 /\ UNCHANGED <<job, task>>
    /\ UNCHANGED <<prev, self, ctor, args, measurements, braket_circuit, status, i, samples>>

\* Line 55: the job the device creates; its first status is the device's choice.
Submit ==
    /\ pc = "L55"
    /\ LET hist == [Stage("submit") EXCEPT
                       !.run = Append(@, [circuit |-> braket_circuit,
                                          shots |-> args.nshots,
                                          kwargs |-> args.kwargs])]
       IN  \/ \E t \in TaskIds, s \in Statuses :
                 /\ job' = [id |-> t, status |-> s]
                 /\ task' = t
                 /\ h' = [hist EXCEPT !.runTask = t]
                 /\ pc' = "L57"
                 /\ UNCHANGED outcome
           \/ \E e \in DeviceErrors :
                 /\ Raise(hist, "run", e)
                 /\ UNCHANGED <<job, task>>
    /\ UNCHANGED <<prev, self, ctor, args, measurements, braket_circuit, status, i, samples>>

LoopCondAlways(s) == TRUE

\* Line 57: `while self.verbosity`.
LoopCond(s) == s.verbosity

LoopTest ==
    /\ pc = "L57"
    /\ pc' = IF LoopCond(self) THEN "L58" ELSE "L68"
    /\ UNCHANGED <<prev, self, ctor, args, measurements, braket_circuit, task, status, i,
                   samples, outcome, job, h>>

\* Line 58: task.state() answers with the job's status, or raises.
Poll ==
    /\ pc = "L58"
    /\ task = job.id
    /\ \/ /\ status' = job.status
          /\ h' = [h EXCEPT !.polled = TRUE,
                            !.lastPoll = job.status,
                            !.sleeps = 0,
                            !.stages = IF @ # <<>> /\ @[Len(@)] = "poll"
                                       THEN @ ELSE Append(@, "poll")]
          /\ pc' = "L59"
          /\ UNCHANGED outcome
       \/ \E e \in DeviceErrors :
             /\ Raise([h EXCEPT !.polled = TRUE], "state", e)
             /\ UNCHANGED status
    /\ UNCHANGED <<prev, self, ctor, args, measurements, braket_circuit, task, i, samples, job>>

IsCompletedTerminal(s) == s \in Terminal

IsCompletedNotQueued(s) == s # "QUEUED"

\* Line 60: `status == "COMPLETED"`.
IsCompleted(s) == s = "COMPLETED"

\* Check that switches the progress output off once the job has completed.
CheckClearsVerbosity ==
    /\ pc = "L59"
    /\ IF IsCompleted(status)
       THEN pc' = "L68" /\ self' = [self EXCEPT !.verbosity = FALSE] /\ UNCHANGED i
       ELSE pc' = "L63" /\ i' = 0 /\ UNCHANGED self
    /\ UNCHANGED <<prev, ctor, args, measurements, braket_circuit, task, status,
                   samples, outcome, job, h>>

\* Lines 59-62: print the status; break on completion, else enter the for loop.
Check ==
    /\ pc = "L59"
    /\ IF IsCompleted(status)
       THEN pc' = "L68" /\ UNCHANGED i
       ELSE pc' = "L63" /\ i' = 0
    /\ UNCHANGED <<prev, self, ctor, args, measurements, braket_circuit, task, status,
                   samples, outcome, job, h>>

SleepRangeShort == 3 - 1

\* Line 63: range(3).
SleepRange == 3

\* Lines 63-65: one iteration of the for loop, time.sleep(1).
Sleep ==
    /\ pc = "L63"
    /\ i < SleepRange
    /\ i' = i + 1
    /\ h' = [h EXCEPT !.sleeps = @ + 1, !.slept = TRUE]
    /\ UNCHANGED <<prev, pc, self, ctor, args, measurements, braket_circuit, task, status,
                   samples, outcome, job>>

\* Line 66: the for loop is exhausted; clear the line and go back to the while test.
ClearLine ==
    /\ pc = "L63"
    /\ ~(i < SleepRange)
    /\ pc' = "L57"
    /\ UNCHANGED <<prev, self, ctor, args, measurements, braket_circuit, task, status, i,
                   samples, outcome, job, h>>

\* Line 68: task.result() blocks until the job has completed, then gives the
\* samples; or it raises.
Retrieve ==
    /\ pc = "L68"
    /\ task = job.id
    /\ LET hist == [Stage("retrieve") EXCEPT !.results = @ + 1]
       IN  \/ /\ job.status = "COMPLETED"
              /\ \E s \in SampleArrays :
                    /\ samples' = s
                    /\ h' = [hist EXCEPT !.resultSamples = s]
              /\ pc' = "L70"
              /\ UNCHANGED outcome
           \/ \E e \in DeviceErrors :
                 /\ Raise(hist, "result", e)
                 /\ UNCHANGED samples
    /\ UNCHANGED <<prev, self, ctor, args, measurements, braket_circuit, task, status, i, job>>

MeasurementOutcomesDefaultShots(m, backend, s, nshots) ==
    [measurements |-> m, backend |-> backend.name, samples |-> s, nshots |-> 1000]

\* Lines 70-72: the Result Container.
MeasurementOutcomes(m, backend, s, nshots) ==
    [measurements |-> m, backend |-> backend.name, samples |-> s, nshots |-> nshots]

Return ==
    /\ pc = "L70"
    /\ outcome' = [kind |-> "returned", error |-> NoError,
                   result |-> MeasurementOutcomes(measurements, self, samples, args.nshots)]
    /\ h' = Stage("construct")
    /\ pc' = "done"
    /\ UNCHANGED <<prev, self, ctor, args, measurements, braket_circuit, task, status, i,
                   samples, job>>

\* The job's lifecycle, on the device's side.
NextStatuses(s) ==
    IF s = "QUEUED" THEN {"RUNNING", "FAILED", "CANCELLED"}
    ELSE IF s = "RUNNING" THEN {"COMPLETED", "FAILED", "CANCELLED"}
    ELSE {}

JobAdvance ==
    /\ job.id # 0
    /\ \E s \in NextStatuses(job.status) : job' = [job EXCEPT !.status = s]
    /\ UNCHANGED <<prev, pc, self, ctor, args, measurements, braket_circuit, task, status, i,
                   samples, outcome, h>>

-----------------------------------------------------------------------------
Init ==
    /\ pc = "new"
    /\ self = [verbatim_circuit |-> FALSE, verbosity |-> FALSE, device |-> NoDevice,
               name |-> ""]
    /\ ctor = [device |-> None, verbatim_circuit |-> FALSE, verbosity |-> FALSE]
    /\ args = NoArgs
    /\ measurements = <<>>
    /\ braket_circuit = NoCircuit
    /\ task = 0
    /\ status = "none"
    /\ i = 0
    /\ samples = <<>>
    /\ outcome = NoOutcome
    /\ job = NoJob
    /\ prev = "none"
    /\ h = NoHistory

\* The steps of a running execute_circuit call.
Step ==
    \/ Validate
    \/ Translate
    \/ Submit
    \/ LoopTest
    \/ Poll
    \/ Check
    \/ Sleep
    \/ ClearLine
    \/ Retrieve
    \/ Return

Next ==
    \/ BraketClientBackend_init
    \/ Call
    \/ Step
    \/ Exit
    \/ JobAdvance

Spec == Init /\ [][Next]_vars

\* The interpreter keeps running a call that can take a step.
FairSpec == Spec /\ WF_vars(Step)

-----------------------------------------------------------------------------
\* Helpers of the properties.

IsPrefix(s, t) == Len(s) <= Len(t) /\ \A k \in 1..Len(s) : s[k] = t[k]

InCall == pc \notin {"new", "idle"}

InLoop == pc \in {"L57", "L58", "L59", "L63"}

NoDeviceContact ==
    /\ h.run = <<>>
    /\ ~h.polled
    /\ h.lastPoll = "none"
    /\ h.results = 0
    /\ job = NoJob
    /\ task = 0

-----------------------------------------------------------------------------
\* C1: a call of execute_circuit on a circuit with no measurement ends in a
\* RuntimeError, and in that call neither to_braket nor device.run, task.state
\* or task.result is invoked, whatever the device and the two flags.
C1_EmptyMeasurementsRaise ==
    (InCall /\ pc # "L50" /\ Measurements(args.circuit) = <<>>) =>
        /\ pc = "done"
        /\ outcome.kind = "raised"
        /\ outcome.error.type = "RuntimeError"
        /\ h.to_braket = <<>>
        /\ NoDeviceContact

C1_Witness ==
    /\ pc = "done"
    /\ Measurements(args.circuit) = <<>>
    /\ args.circuit = <<Gate("RX", 0)>>
    /\ outcome.error.type = "RuntimeError"
    /\ self.verbosity
    /\ self.verbatim_circuit
    /\ self.device.class = "AwsDevice"

\* C2 as stated: no device argument gives the default local simulator,
\* "braket_dm" the density-matrix simulator, and every other string, the empty
\* string included, a remote device with that string as identifier.
C2_AnyOtherStringIsRemote ==
    pc # "new" =>
        self.device = IF ctor.device = None THEN LocalSimulator("default")
                      ELSE IF ctor.device = "braket_dm" THEN LocalSimulator("braket_dm")
                      ELSE AwsDevice(ctor.device)

\* C2 as amended: no device argument or the empty string gives the default
\* local simulator, "braket_dm" the density-matrix simulator, and every other
\* non-empty string a remote device with that string as identifier.
C2_DeviceSelector ==
    pc # "new" =>
        self.device = IF ctor.device \in {None, ""} THEN LocalSimulator("default")
                      ELSE IF ctor.device = "braket_dm" THEN LocalSimulator("braket_dm")
                      ELSE AwsDevice(ctor.device)

C2_Witness ==
    /\ pc = "idle"
    /\ ctor.device = ""
    /\ self.device = LocalSimulator("default")

\* C3: with verbosity on, task.result() is called only after task.state() of
\* the job that device.run returned in this call has answered "COMPLETED", and
\* the steps come in the order validate, translate, submit, poll, retrieve,
\* construct.
C3_RetrieveAfterCompletedPoll ==
    (InCall /\ self.verbosity) =>
        /\ IsPrefix(h.stages,
                    <<"validate", "translate", "submit", "poll", "retrieve", "construct">>)
        /\ (h.results > 0 \/ pc \in {"L68", "L70"}) =>
              /\ h.lastPoll = "COMPLETED"
              /\ status = "COMPLETED"
              /\ Len(h.run) = 1
              /\ task # 0
              /\ task = h.runTask

C3_Witness ==
    /\ self.verbosity
    /\ pc = "done"
    /\ outcome.kind = "returned"
    /\ h.slept
    /\ h.stages = <<"validate", "translate", "submit", "poll", "retrieve", "construct">>

\* C4: with verbosity on, as long as no poll has answered "COMPLETED" the call
\* has not returned and task.result() has not been called, and the polling
\* loop is left only by a poll that answers "COMPLETED" or by an error raised
\* by the device call.
C4_LoopExitsOnlyOnCompletedOrRaise ==
    /\ [](  (InCall /\ self.verbosity /\ h.run # <<>> /\ h.lastPoll # "COMPLETED") =>
                /\ h.results = 0
                /\ outcome.kind # "returned"
                /\ pc \notin {"L68", "L70"}
                /\ pc = "done" => h.raisedBy \in {"run", "state"})
    /\ [][ (self.verbosity /\ InLoop /\ ~InLoop') =>
              \/ pc = "L59" /\ status = "COMPLETED" /\ pc' = "L68"
              \/ pc = "L58" /\ pc' = "done" /\ outcome'.kind = "raised"
                 /\ outcome'.error \in DeviceErrors ]_vars

\* The job has settled in FAILED and the call is on a later round of the loop.
C4_Witness ==
    /\ self.verbosity
    /\ pc = "L58"
    /\ job.status = "FAILED"
    /\ h.lastPoll = "FAILED"
    /\ h.sleeps = 3

\* C5: a call that returns gives a Result Container with the measurement list
\* of the circuit passed in, the samples task.result() returned and the
\* nshots requested, which is also the shot count given to device.run.
C5_ResultContainer ==
    outcome.kind = "returned" =>
        /\ outcome.result.measurements = Measurements(args.circuit)
        /\ outcome.result.samples = h.resultSamples
        /\ outcome.result.samples \in SampleArrays
        /\ outcome.result.nshots = args.nshots
        /\ Len(h.run) = 1
        /\ h.run[1].shots = args.nshots

C5_Witness ==
    /\ outcome.kind = "returned"
    /\ args.nshots = 100
    /\ outcome.result.measurements = <<Gate("M", 1), Gate("M", 0)>>
    /\ Len(outcome.result.samples) = 2

\* C6: an error raised by device.run, task.state or task.result is the outcome
\* of the call as it is, with no Result Container and no retry: device.run is
\* invoked at most once per call, and exactly once in every call that has
\* passed validation and translation.
C6_DeviceErrorsPropagate ==
    InCall =>
        /\ Len(h.run) <= 1
        /\ (pc \in {"L57", "L58", "L59", "L63", "L68", "L70"}
             \/ (pc = "done" /\ h.raisedBy \notin {"validate", "translate"}))
              => Len(h.run) = 1
        /\ h.raisedBy \in {"run", "state", "result"} =>
              /\ pc = "done"
              /\ h.raised \in DeviceErrors
              /\ outcome = [kind |-> "raised", error |-> h.raised, result |-> NoResult]
              /\ h.raisedBy = "run" => ~h.polled /\ h.results = 0
              /\ h.raisedBy = "state" => h.results = 0
              /\ h.results <= 1

C6_Witness ==
    /\ pc = "done"
    /\ h.raisedBy = "state"
    /\ h.lastPoll = "RUNNING"
    /\ outcome.error = Err("TimeoutError", "poll")
    /\ Len(h.run) = 1

\* C7: when the translator raises on an unrecognized gate kind, the call ends
\* with that error and device.run, task.state and task.result are not invoked
\* in it; the translator is called with the verbatim flag given at
\* construction.
C7_TranslationFailureBeforeSubmit ==
    InCall =>
        /\ h.to_braket # <<>> =>
              /\ Len(h.to_braket) = 1
              /\ h.to_braket[1] = [circuit |-> args.circuit,
                                   verbatim |-> ctor.verbatim_circuit]
        /\ (h.to_braket # <<>> /\ ~to_braket(args.circuit, ctor.verbatim_circuit).ok) =>
              /\ pc = "done"
              /\ outcome.kind = "raised"
              /\ outcome.error = to_braket(args.circuit, ctor.verbatim_circuit).error
              /\ h.raisedBy = "translate"
              /\ NoDeviceContact
        /\ h.raisedBy = "translate" => ~to_braket(args.circuit, ctor.verbatim_circuit).ok

C7_Witness ==
    /\ pc = "done"
    /\ h.raisedBy = "translate"
    /\ outcome.error = Err("UnsupportedGateError", "FOO")
    /\ ctor.verbatim_circuit
    /\ h.to_braket[1].verbatim
    /\ args.circuit = <<Gate("FOO", 1), Gate("M", 0)>>

\* What a call's arguments, the construction-time values and the device's
\* answers determine as its outcome.
ExpectedOutcome ==
    IF Measurements(args.circuit) = <<>>
    THEN [kind |-> "raised", result |-> NoResult,
          error |-> Err("RuntimeError", "No measurement found in the provided circuit.")]
    ELSE IF ~to_braket(args.circuit, ctor.verbatim_circuit).ok
    THEN [kind |-> "raised", result |-> NoResult,
          error |-> to_braket(args.circuit, ctor.verbatim_circuit).error]
    ELSE IF h.raisedBy # "none"
    THEN [kind |-> "raised", result |-> NoResult, error |-> h.raised]
    ELSE [kind |-> "returned", error |-> NoError,
          result |-> [measurements |-> Measurements(args.circuit), backend |-> "aws",
                      samples |-> h.resultSamples, nshots |-> args.nshots]]

\* C8: over any sequence of calls, returning or raising, the client's device,
\* verbatim flag and verbosity flag keep their construction-time values, and
\* the outcome of a call is the one its own arguments, those three values and
\* the device's answers determine.
C8_ClientUnchangedAcrossCalls ==
    /\ [](pc # "new" =>
            /\ self.verbatim_circuit = ctor.verbatim_circuit
            /\ self.verbosity = ctor.verbosity
            /\ self.device.arg = IF ctor.device \in {None, ""} THEN "default"
                                 ELSE ctor.device)
    /\ [](pc = "done" =>
            outcome = ExpectedOutcome)
    /\ [][pc # "new" => self' = self]_vars
    /\ [][pc # "new" => ctor' = ctor]_vars

\* A second call has ended after a first one that raised.
C8_Witness ==
    /\ pc = "done"
    /\ prev = "raised"
    /\ outcome.kind = "returned"
    /\ self.verbosity
    /\ self.device = LocalSimulator("braket_dm")
    /\ h.lastPoll = "COMPLETED"

\* C9: with verbosity off, the call never polls and never sleeps; after
\* device.run the next device interaction is task.result(), called once.
C9_NoPollingWithoutVerbosity ==
    (InCall /\ ~self.verbosity) =>
        /\ ~h.polled
        /\ ~h.slept
        /\ status = "none"
        /\ pc \notin {"L58", "L59", "L63"}
        /\ IsPrefix(h.stages, <<"validate", "translate", "submit", "retrieve", "construct">>)
        /\ (pc = "L70" \/ outcome.kind = "returned" \/ h.raisedBy = "result") => h.results = 1
        /\ (pc \in {"L57", "L68"}) => h.results = 0 /\ Len(h.run) = 1

C9_Witness ==
    /\ ~self.verbosity
    /\ pc = "done"
    /\ outcome.kind = "returned"
    /\ h.results = 1
    /\ h.stages = <<"validate", "translate", "submit", "retrieve", "construct">>

\* C10: with verbosity on, once the job is COMPLETED a call that is polling
\* leaves the loop, calls task.result() and returns (unless a device call
\* raises); a poll that does not answer "COMPLETED" is followed by the three
\* one-second sleeps before the next poll, and the poll that answers
\* "COMPLETED" by no sleep and no further poll.
C10_PollingTerminates ==
    /\ (self.verbosity /\ InLoop /\ job.status = "COMPLETED")
          ~> (pc = "done" /\ (\/ outcome.kind = "returned" /\ h.results = 1
                              \/ h.raisedBy \in {"state", "result"}))
    /\ [][ (pc = "L58" /\ pc' # "L58") =>
              \/ h.lastPoll = "none" /\ h.sleeps = 0
              \/ h.lastPoll # "COMPLETED" /\ h.sleeps = 3 ]_vars
    /\ [][ (pc = "L59" /\ pc' # "L59") =>
              IF status = "COMPLETED" THEN pc' = "L68" ELSE pc' = "L63" /\ i' = 0 ]_vars
    /\ [](h.lastPoll = "COMPLETED" => pc \in {"L59", "L68", "L70", "done"} /\ h.sleeps = 0)

C10_Witness ==
    /\ self.verbosity
    /\ pc = "done"
    /\ outcome.kind = "returned"
    /\ h.slept
    /\ h.lastPoll = "COMPLETED"
    /\ args.circuit = <<Gate("RX", 0), Gate("M", 0), Gate("M", 1)>>

====
